---- MODULE Spec2Model ----
(***************************************************************************)
(* Threat-intelligence query service (reyesdiego/threat-intel-sqlite).     *)
(*                                                                         *)
(* Spec        the dashboard handler getDashboardSummary with its Redis    *)
(*             cache-aside layer, the clock, and the external ingestion    *)
(*             that changes the store underneath it; requests one after    *)
(*             the other, without end.                                     *)
(* SpecRace    the same handler serving two requests concurrently.         *)
(* SpecSearch  the indicator search handler searchIndicators, applied to   *)
(*             one request over one store, both drawn from bounded sets.   *)
(* SpecCorrupt the dashboard handler over a cache holding values that are  *)
(*             not JSON.                                                   *)
(* SpecDetail  the indicator detail handler getIndicatorById, one request. *)
(* SpecTimeline the campaign timeline handler getCampaignIndicators, one   *)
(*             request.                                                    *)
(* SpecFault   the three store handlers with a data-layer call that may    *)
(*             throw.                                                      *)
(*                                                                         *)
(* Timestamps are integers (seconds); the source compares ISO-8601 strings *)
(* whose lexical order is their chronological order.                       *)
(***************************************************************************)
EXTENDS Integers, Sequences, FiniteSets, Bags, TLC

VARIABLES
    clock,      \* index into Instants: the current time
    ingested,   \* number of rows of Feed the external ingestion has inserted
    redis,      \* the Redis keyspace: key -> entry
    reqs,       \* the in-flight dashboard requests, one per slot
    sStore,     \* search: the store the request runs against
    sReq,       \* search: req.query
    sPc,        \* search: "start" | "done"
    sRes,       \* search: the response
    sLog        \* search: the statements executed against the store, in order

dashVars == <<clock, ingested, redis, reqs>>
searchVars == <<sStore, sReq, sPc, sRes, sLog>>
vars == <<clock, ingested, redis, reqs, sStore, sReq, sPc, sRes, sLog>>

\* JS undefined, where the defined values are strings
Absent == "<undefined>"
\* SQL values of the aggregate columns: NULL or an integer
SqlNull == [null |-> TRUE, n |-> 0]
SqlInt(n) == [null |-> FALSE, n |-> n]
\* no text: Redis nil, an unset local
NoText == <<>>

(***************************************************************************)
(* Time                                                                    *)
(***************************************************************************)
\* Cache TTL in seconds
CACHE_TTL == 300
\* seconds in an hour (Date.setHours arithmetic)
SecondsPerHour == 3600
\* a time step shorter than the TTL
Step == 100
\* the instants the clock visits, in order
Instants == <<0, Step, CACHE_TTL - 1, CACHE_TTL, CACHE_TTL + Step>>
now == Instants[clock]

(***************************************************************************)
(* The store as the dashboard query sees it                                *)
(***************************************************************************)
IndicatorTypes == {"ip", "domain", "url", "hash"}

\* rows present from the start
DashIndicators0 ==
    { [id |-> "ind-1", type |-> "ip", first_seen |-> 50 - (24 * SecondsPerHour)],
      [id |-> "ind-2", type |-> "domain", first_seen |-> 0 - (31 * 24 * SecondsPerHour)] }
\* rows the external ingestion inserts, in this order, never before their first_seen
Feed ==
    << [id |-> "ind-3", type |-> "hash", first_seen |-> Step] >>
DashCampaigns ==
    { [id |-> "camp-1", status |-> "active", last_seen |-> 250 - (7 * 24 * SecondsPerHour)],
      [id |-> "camp-2", status |-> "inactive", last_seen |-> 0],
      [id |-> "camp-3", status |-> "active", last_seen |-> 0 - (31 * 24 * SecondsPerHour)] }

IndicatorsAt(n) == DashIndicators0 \cup { Feed[k] : k \in 1..n }

(***************************************************************************)
(* data/dashboard.ts                                                       *)
(***************************************************************************)
TIME_RANGE_KEYS == <<"24h", "7d", "30d">>
TIME_RANGE_MAPPING ==
    [k \in {"24h", "7d", "30d"} |->
        CASE k = "24h" -> 24 [] k = "7d" -> 24 * 7 [] k = "30d" -> 24 * 30]
DEFAULT_RANGE == "7d"

\* properties every object literal inherits from Object.prototype
ObjectPrototypeKeys ==
    {"constructor", "toString", "valueOf", "hasOwnProperty", "isPrototypeOf",
     "propertyIsEnumerable", "toLocaleString", "__proto__"}

\* JS `key in obj`: own properties and inherited ones
In(key, obj) == key \in DOMAIN obj \/ key \in ObjectPrototypeKeys

\* JS obj[key]: an inherited property is a function or an object, not a number
Lookup(obj, key) ==
    IF key \in DOMAIN obj THEN [number |-> TRUE, n |-> obj[key]]
    ELSE [number |-> FALSE, n |-> 0]

\* getCutoffISOString: new Date() minus hoursBack hours; the date is invalid
\* (NaN) when hoursBack is not a number
getCutoff(hoursBack, t) ==
    IF hoursBack.number THEN [nan |-> FALSE, t |-> t - (hoursBack.n * SecondsPerHour)]
    ELSE [nan |-> TRUE, t |-> 0]

\* SQL: SUM(CASE WHEN type = ty THEN 1 ELSE 0 END) over rows; NULL over no rows
SumCase(rows, ty) ==
    IF rows = {} THEN SqlNull ELSE SqlInt(Cardinality({ r \in rows : r.type = ty }))

TypeSums(rows) == [ty \in IndicatorTypes |-> SumCase(rows, ty)]

\* the text SQLite's json_object(...) returns, as the value it denotes
SqliteJson(v) == <<"json-text", v>>

\* JSON.stringify / JSON.parse
JSONStringify(v) == <<"json-text", v>>
JSONParse(s) == IF Len(s) # 2 \/ s[1] # "json-text"
                THEN [threw |-> TRUE, value |-> <<>>]
                ELSE [threw |-> FALSE, value |-> s[2]]

\* the document of the JSON query for a cutoff over the given tables.
\* indicator_distribution is a json_group_array(...) over the one row of the
\* sums: a JSON array, written [array |-> its elements] so that it can be
\* told from a JSON object
DashboardDocument(timeRange, cutoff, inds, camps) ==
    [ time_range |-> timeRange,
      new_indicators |-> TypeSums({ i \in inds : i.first_seen >= cutoff }),
      active_campaigns |->
          Cardinality({ c \in camps : c.status = "active" /\ c.last_seen >= cutoff }),
      indicator_distribution |-> [array |-> << TypeSums(inds) >>] ]

\* getDashboardData(timeRange) evaluated at time t over store version n:
\* the row {data: <json text>}, or the RangeError of toISOString() on an
\* invalid date
getDashboardDataAt(timeRange, t, n) ==
    LET hoursBack == Lookup(TIME_RANGE_MAPPING, timeRange)
        cutoff == getCutoff(hoursBack, t)
    IN  IF cutoff.nan
        THEN [threw |-> TRUE, error |-> [name |-> "RangeError", http |-> FALSE],
              value |-> [data |-> NoText]]
        ELSE [threw |-> FALSE, error |-> [name |-> "none", http |-> FALSE],
              value |-> [data |-> SqliteJson(
                  DashboardDocument(timeRange, cutoff.t, IndicatorsAt(n), DashCampaigns))]]

getDashboardData(timeRange) == getDashboardDataAt(timeRange, now, ingested)

(***************************************************************************)
(* api/errors/http-errors.ts and the error middleware of api/server.ts     *)
(***************************************************************************)
HttpError(status, code, message, details) ==
    [name |-> "HttpError", http |-> TRUE, status |-> status, code |-> code,
     message |-> message, details |-> details]

WrongParameters(message, details) ==
    [HttpError(400, "WRONG_PARAMETERS", message, details) EXCEPT !.name = "WrongParameters"]

NotFound(message, details) ==
    [HttpError(404, "NOT_FOUND", message, details) EXCEPT !.name = "NotFound"]

\* an error middleware that also reports the name of an unknown error
errorHandlerLeaking(err) ==
    IF err.http
    THEN [status |-> err.status, cached |-> Absent,
          body |-> JSONStringify(
              [error |-> err.message, code |-> err.code, details |-> err.details])]
    ELSE [status |-> 500, cached |-> Absent,
          body |-> JSONStringify([error |-> "Internal server error", name |-> err.name])]

\* app.use((err, req, res, next) => ...)
errorHandler(err) ==
    IF err.http
    THEN [status |-> err.status, cached |-> Absent,
          body |-> JSONStringify(
              [error |-> err.message, code |-> err.code, details |-> err.details])]
    ELSE [status |-> 500, cached |-> Absent,
          body |-> JSONStringify([error |-> "Internal server error"])]

(***************************************************************************)
(* The Redis keyspace                                                      *)
(***************************************************************************)
\* what req.query.time_range may hold
QueryValues == {Absent, "", "24h", "7d", "30d", "1h", "constructor"}

\* one key for every range
cacheKeyShared(timeRange) == <<"dashboard:summary:", "summary">>

\* `dashboard:summary:${timeRange}`
cacheKey(timeRange) == <<"dashboard:summary:", timeRange>>

CacheKeys == { cacheKey(t) : t \in QueryValues \ {Absent, ""} }

\* state: "none" (never set, or evicted), "live", or "expired" (dropped by
\* Redis at its expiry time). The other fields are history variables: when
\* the value was stored and by which request, the time and store version it
\* was computed from, and the body of the response of the request that
\* stored it.
NilEntry ==
    [state |-> "none", value |-> NoText, expiresAt |-> 0,
     storedAt |-> 0, writer |-> 0, srcAt |-> 0, srcVer |-> 0, respBody |-> NoText]

\* GET: the stored value while the key has not expired, else nil
RedisValue(key) ==
    IF redis[key].state = "live" /\ redis[key].expiresAt > now
    THEN redis[key].value ELSE NoText

\* SETEX key ttl value
RedisSetexValue(entry, ttl, value) ==
    [entry EXCEPT !.state = "live", !.value = value, !.expiresAt = now + ttl]

(***************************************************************************)
(* controllers/dashboard.controller.ts: getDashboardSummary                *)
(***************************************************************************)
NoRes == [status |-> 0, cached |-> Absent, body |-> NoText]
NoReply == [kind |-> "none", value |-> NoText]
NoSummary == [data |-> NoText]

\* pc: idle -> get -> reply -> setex -> done, the awaits being the steps.
\* query .. res are the handler's locals and its response. The rest are
\* history variables: which calls were made and which failed, the error given
\* to next(), what the GET returned, the entry it found and when, the time
\* and store version getDashboardData ran at, and what getDashboardData would
\* have returned at the moment of the response.
IdleReq ==
    [pc |-> "idle", query |-> Absent, timeRange |-> Absent, reply |-> NoReply,
     summary |-> NoSummary, res |-> NoRes,
     getCalls |-> 0, dbCalls |-> 0, setexCalls |-> 0,
     getFailed |-> FALSE, setFailed |-> FALSE, nextError |-> "none",
     readAt |-> -1, got |-> NoText, seen |-> NilEntry,
     computedAt |-> -1, computedVer |-> -1,
     freshNow |-> NoText]

\* line 15: (req.query.time_range as string) || DEFAULT_RANGE
resolveTimeRange(q) == IF q = Absent \/ q = "" THEN DEFAULT_RANGE ELSE q

\* line 17: timeRange in TIME_RANGE_MAPPING
acceptsTimeRange(timeRange) == In(timeRange, TIME_RANGE_MAPPING)

\* lines 18-21
invalidTimeRange(timeRange) ==
    WrongParameters(<<"Invalid time_range. Must be one of: ", TIME_RANGE_KEYS>>,
                    [time_range |-> timeRange])

\* an error of the Redis client
RedisError == [name |-> "RedisError", http |-> FALSE]

\* catch (error) { next(error) }: the error middleware answers, on the same
\* res, which keeps a header set before
passToNext(q, err) ==
    [q EXCEPT !.pc = "done", !.query = Absent, !.reply = NoReply, !.summary = NoSummary,
              !.nextError = err.name,
              !.res = [errorHandler(err) EXCEPT !.cached = q.res.cached]]

\* the body getDashboardData would give at this moment
FreshBody(timeRange) ==
    LET d == getDashboardData(timeRange)
    IN  IF d.threw THEN NoText ELSE JSONStringify(d.value)

\* lines 14-28: from the start of the handler to `await redis.get(cacheKey)`
receive(q, query) ==
    LET timeRange == resolveTimeRange(query)
    IN  IF ~acceptsTimeRange(timeRange)
        THEN passToNext([q EXCEPT !.timeRange = timeRange], invalidTimeRange(timeRange))
        ELSE [q EXCEPT !.pc = "get", !.query = query, !.timeRange = timeRange,
                       !.getCalls = 1]

\* respondCached without the header
respondCachedUnmarked(q, parsed) ==
    [q EXCEPT !.pc = "done", !.query = Absent, !.reply = NoReply,
              !.freshNow = FreshBody(q.timeRange),
              !.res = [status |-> 200, cached |-> Absent, body |-> JSONStringify(parsed)]]

\* line 30: res.header('cached', 'redis').json(JSON.parse(cachedData))
respondCached(q, parsed) ==
    [q EXCEPT !.pc = "done", !.query = Absent, !.reply = NoReply,
              !.freshNow = FreshBody(q.timeRange),
              !.res = [status |-> 200, cached |-> "redis", body |-> JSONStringify(parsed)]]

\* lines 37-41: getDashboardData(timeRange), then `await redis.setex(...)`;
\* a throw of getDashboardData goes to the outer catch
computeSummary(q) ==
    LET d == getDashboardData(q.timeRange)
        c == [q EXCEPT !.reply = NoReply, !.dbCalls = 1,
                       !.computedAt = now, !.computedVer = ingested]
    IN  IF d.threw THEN passToNext(c, d.error)
        ELSE [c EXCEPT !.pc = "setex", !.summary = d.value, !.setexCalls = 1]

\* afterGet without the inner try/catch: a rejected GET reaches next()
afterGetUncaught(q) ==
    IF q.reply.kind = "error" THEN passToNext(q, RedisError)
    ELSE IF q.reply.value = NoText THEN computeSummary(q)
    ELSE respondCached(q, JSONParse(q.reply.value).value)

\* afterGet storing the cached document again on a hit
afterGetRewriting(q) ==
    IF q.reply.kind = "error" THEN computeSummary(q)
    ELSE IF q.reply.value = NoText THEN computeSummary(q)
    ELSE LET parsed == JSONParse(q.reply.value)
         IN  IF parsed.threw THEN computeSummary([q EXCEPT !.res.cached = "redis"])
             ELSE [q EXCEPT !.pc = "setex", !.reply = NoReply, !.summary = parsed.value,
                            !.setexCalls = 1, !.res.cached = "redis"]

\* lines 28-41: the continuation of `await redis.get`. A rejected GET and a
\* throw of JSON.parse are caught by the inner catch (lines 32-35). In line
\* 30 res.header('cached', 'redis') is called before the argument
\* JSON.parse(cachedData) of .json(...) is evaluated: when JSON.parse throws,
\* the header is already set on res.
afterGet(q) ==
    IF q.reply.kind = "error" THEN computeSummary(q)
    ELSE IF q.reply.value = NoText THEN computeSummary(q)
    ELSE LET parsed == JSONParse(q.reply.value)
         IN  IF parsed.threw THEN computeSummary([q EXCEPT !.res.cached = "redis"])
             ELSE respondCached(q, parsed.value)

\* setexArgs with the TTL given in milliseconds
setexArgsMillis(q) ==
    [key |-> cacheKey(q.timeRange), ttl |-> CACHE_TTL * 1000,
     value |-> JSONStringify(q.summary)]

\* setexArgs with the key of the default range, whatever the range
setexArgsDefaultKey(q) ==
    [key |-> cacheKey(DEFAULT_RANGE), ttl |-> CACHE_TTL, value |-> JSONStringify(q.summary)]

\* line 41: the arguments of redis.setex
setexArgs(q) ==
    [key |-> cacheKey(q.timeRange), ttl |-> CACHE_TTL, value |-> JSONStringify(q.summary)]

\* afterSetex without the try/catch around the write
afterSetexUncaught(q, failed) ==
    IF failed THEN passToNext(q, RedisError)
    ELSE [q EXCEPT !.pc = "done", !.query = Absent, !.summary = NoSummary,
                   !.freshNow = FreshBody(q.timeRange),
                   !.res = [status |-> 200, cached |-> q.res.cached,
                            body |-> JSONStringify(q.summary)]]

\* lines 42-47: a rejected SETEX is caught; res.json(summary), on the res
\* that keeps a header set before
afterSetex(q, failed) ==
    [q EXCEPT !.pc = "done", !.query = Absent, !.summary = NoSummary,
              !.setFailed = failed, !.freshNow = FreshBody(q.timeRange),
              !.res = [status |-> 200, cached |-> q.res.cached,
                       body |-> JSONStringify(q.summary)]]

Receive(r, query) ==
    /\ reqs[r].pc = "idle"
    /\ reqs' = [reqs EXCEPT ![r] = receive(reqs[r], query)]
    /\ UNCHANGED <<clock, ingested, redis, searchVars>>

\* Redis answers GET, or the command fails
RedisGet(r) ==
    /\ reqs[r].pc = "get"
    /\ \E fails \in BOOLEAN :
         LET key == cacheKey(reqs[r].timeRange)
         IN  reqs' = [reqs EXCEPT ![r] =
                 [@ EXCEPT !.pc = "reply", !.getFailed = fails,
                           !.readAt = IF fails THEN -1 ELSE now,
                           !.seen = IF fails THEN NilEntry ELSE redis[key],
                           !.got = IF fails THEN NoText ELSE RedisValue(key),
                           !.reply = IF fails THEN [kind |-> "error", value |-> NoText]
                                     ELSE [kind |-> "value", value |-> RedisValue(key)]]]
    /\ UNCHANGED <<clock, ingested, redis, searchVars>>

AfterGet(r) ==
    /\ reqs[r].pc = "reply"
    /\ reqs' = [reqs EXCEPT ![r] = afterGet(reqs[r])]
    /\ UNCHANGED <<clock, ingested, redis, searchVars>>

\* Redis executes SETEX, or the command fails; the handler then responds
RedisSetex(r) ==
    /\ reqs[r].pc = "setex"
    /\ \E fails \in BOOLEAN :
         LET q == reqs[r]
             a == setexArgs(q)
             after == afterSetex(q, fails)
         IN  /\ reqs' = [reqs EXCEPT ![r] = after]
             /\ redis' = IF fails THEN redis
                         ELSE [redis EXCEPT ![a.key] =
                                 [RedisSetexValue(@, a.ttl, a.value) EXCEPT
                                     !.storedAt = now, !.writer = r, !.srcAt = q.computedAt,
                                     !.srcVer = q.computedVer, !.respBody = after.res.body]]
    /\ UNCHANGED <<clock, ingested, searchVars>>

\* the response has been sent; the slot takes the next request
Finish(r) ==
    /\ reqs[r].pc = "done"
    /\ reqs' = [reqs EXCEPT ![r] = IdleReq]
    /\ UNCHANGED <<clock, ingested, redis, searchVars>>

\* time passes; Redis drops the keys that have expired
Tick ==
    /\ clock < Len(Instants)
    /\ clock' = clock + 1
    /\ redis' = [k \in CacheKeys |->
                    IF redis[k].state = "live" /\ redis[k].expiresAt <= Instants[clock + 1]
                    THEN [redis[k] EXCEPT !.state = "expired", !.value = NoText,
                                          !.respBody = NoText]
                    ELSE redis[k]]
    /\ UNCHANGED <<ingested, reqs, searchVars>>

\* the external ingestion inserts the next row
Ingest ==
    /\ ingested < Len(Feed)
    /\ Feed[ingested + 1].first_seen <= now
    /\ ingested' = ingested + 1
    /\ UNCHANGED <<clock, redis, reqs, searchVars>>

\* Redis evicts a key (maxmemory, FLUSHDB, a restart without persistence)
Evict(k) ==
    /\ redis[k].state = "live"
    /\ redis' = [redis EXCEPT ![k] = NilEntry]
    /\ UNCHANGED <<clock, ingested, reqs, searchVars>>

SearchOff ==
    /\ sStore = <<>> /\ sReq = <<>> /\ sPc = "off" /\ sRes = <<>> /\ sLog = <<>>

\* one request at a time
Slots == {1}
\* two requests at once
RaceSlots == {1, 2}
RaceQueries == {"24h", "7d"}

InitDash(slots) ==
    /\ clock = 1
    /\ ingested = 0
    /\ redis = [k \in CacheKeys |-> NilEntry]
    /\ reqs = [r \in slots |-> IdleReq]
    /\ SearchOff

Init == InitDash(Slots)

Next ==
    \/ \E r \in Slots : \E q \in QueryValues : Receive(r, q)
    \/ \E r \in Slots : RedisGet(r)
    \/ \E r \in Slots : AfterGet(r)
    \/ \E r \in Slots : RedisSetex(r)
    \/ \E r \in Slots : Finish(r)
    \/ Tick
    \/ Ingest
    \/ \E k \in CacheKeys : Evict(k)

Spec == Init /\ [][Next]_vars

InitRace == InitDash(RaceSlots)

NextRace ==
    \/ \E r \in RaceSlots : \E q \in RaceQueries : Receive(r, q)
    \/ \E r \in RaceSlots : RedisGet(r)
    \/ \E r \in RaceSlots : AfterGet(r)
    \/ \E r \in RaceSlots : RedisSetex(r)
    \/ Tick
    \/ Ingest
    \/ \E k \in CacheKeys : Evict(k)

SpecRace == InitRace /\ [][NextRace]_vars

(***************************************************************************)
(* SpecCorrupt: the dashboard handler over a cache in which another writer *)
(* has left values that are not JSON                                       *)
(***************************************************************************)
\* a live key whose value JSON.parse rejects
CorruptEntry ==
    [NilEntry EXCEPT !.state = "live", !.value = <<"not json">>, !.expiresAt = CACHE_TTL]

InitCorrupt ==
    /\ clock = 1
    /\ ingested = 0
    /\ \E ks \in SUBSET {cacheKey("24h"), cacheKey("7d")} :
           redis = [k \in CacheKeys |-> IF k \in ks THEN CorruptEntry ELSE NilEntry]
    /\ reqs = [r \in Slots |-> IdleReq]
    /\ SearchOff

NextCorrupt ==
    \/ \E r \in Slots : \E q \in QueryValues : Receive(r, q)
    \/ \E r \in Slots : RedisGet(r)
    \/ \E r \in Slots : AfterGet(r)
    \/ \E r \in Slots : RedisSetex(r)
    \/ \E r \in Slots : Finish(r)
    \/ Tick

SpecCorrupt == InitCorrupt /\ [][NextCorrupt]_vars

(***************************************************************************)
(* Values of the search handler                                            *)
(***************************************************************************)
\* a member of req.query: undefined, or a string. page, limit and value carry
\* their characters; the other strings are compared whole
Undefined == [defined |-> FALSE, text |-> <<>>]
Str(t) == [defined |-> TRUE, text |-> t]
\* undefined where the string is compared whole, and where it is a timestamp
UndefinedName == [defined |-> FALSE, text |-> ""]
UndefinedTime == [defined |-> FALSE, text |-> 0]

\* JS truthiness of a query member: undefined and '' are falsy
Truthy(p) == p.defined /\ p.text # <<>>
TruthyName(p) == p.defined /\ p.text # ""
TruthyTime(p) == p.defined

\* a JS number: an integer or NaN
NaN == [nan |-> TRUE, n |-> 0]
Num(n) == [nan |-> FALSE, n |-> n]

Digits == <<"0", "1", "2", "3", "4", "5", "6", "7", "8", "9">>
IsDigit(c) == \E d \in 1..10 : Digits[d] = c
DigitValue(c) == (CHOOSE d \in 1..10 : Digits[d] = c) - 1

\* the length of the longest prefix of s made of digits
RECURSIVE DigitPrefixLen(_)
DigitPrefixLen(s) ==
    IF s = <<>> \/ ~IsDigit(Head(s)) THEN 0 ELSE 1 + DigitPrefixLen(Tail(s))

\* the value of a string of digits
RECURSIVE DigitsValue(_)
DigitsValue(s) ==
    IF s = <<>> THEN 0
    ELSE (DigitsValue(SubSeq(s, 1, Len(s) - 1)) * 10) + DigitValue(s[Len(s)])

RECURSIVE TrimStart(_)
TrimStart(s) == IF s # <<>> /\ Head(s) = " " THEN TrimStart(Tail(s)) ELSE s

\* parseInt(string): leading white space, an optional sign, then the longest
\* prefix of decimal digits; NaN when there is none. (No request of the model
\* carries the 0x prefix.)
parseInt(s) ==
    LET t == TrimStart(s)
        signed == t # <<>> /\ Head(t) \in {"-", "+"}
        body == IF signed THEN Tail(t) ELSE t
        k == DigitPrefixLen(body)
        v == DigitsValue(SubSeq(body, 1, k))
    IN  IF k = 0 THEN NaN
        ELSE IF signed /\ Head(t) = "-" THEN Num(0 - v) ELSE Num(v)

\* Math.min(a, b): NaN when either is NaN
MathMin(a, b) ==
    IF a.nan \/ b.nan THEN NaN ELSE IF a.n < b.n THEN a ELSE b

\* a - b, a * b, a < b on JS numbers
Minus(a, b) == IF a.nan \/ b.nan THEN NaN ELSE Num(a.n - b.n)
Times(a, b) == IF a.nan \/ b.nan THEN NaN ELSE Num(a.n * b.n)
LessThan(a, b) == ~a.nan /\ ~b.nan /\ a.n < b.n

\* Math.floor(a / b) for integers a >= 0 and b; a number JSON writes as null
\* (NaN, Infinity) when b = 0
MathFloorDiv(a, b) ==
    IF b = 0 THEN NaN
    ELSE IF b > 0 THEN Num(a \div b)
    ELSE Num(0 - (IF a % (0 - b) = 0 THEN a \div (0 - b) ELSE (a \div (0 - b)) + 1))

\* Math.ceil(a / b) for integers a >= 0 and b; a number JSON writes as null
\* (NaN, Infinity) when b = 0
MathCeilDiv(a, b) ==
    IF b = 0 THEN NaN
    ELSE IF b > 0 THEN Num(IF a % b = 0 THEN a \div b ELSE (a \div b) + 1)
    ELSE Num(0 - (a \div (0 - b)))

\* the largest page size served
MAX_LIMIT == 100

(***************************************************************************)
(* SQLite: LIKE                                                            *)
(***************************************************************************)
UpperCase == <<"A", "B">>
LowerCase == <<"a", "b">>
\* LIKE folds the case of ASCII letters
Fold(c) == IF \E k \in 1..Len(UpperCase) : UpperCase[k] = c
           THEN LowerCase[CHOOSE k \in 1..Len(UpperCase) : UpperCase[k] = c]
           ELSE c

\* text LIKE pattern: % matches any run of characters, _ any one character
RECURSIVE Like(_, _)
Like(text, pattern) ==
    IF pattern = <<>> THEN text = <<>>
    ELSE IF Head(pattern) = "%"
         THEN Like(text, Tail(pattern)) \/ (text # <<>> /\ Like(Tail(text), pattern))
    ELSE IF text = <<>> THEN FALSE
    ELSE IF Head(pattern) = "_" \/ Fold(Head(pattern)) = Fold(Head(text))
         THEN Like(Tail(text), Tail(pattern))
    ELSE FALSE

(***************************************************************************)
(* The store as the search query sees it                                   *)
(***************************************************************************)
IndicatorId(k) == <<"indicator", k>>

\* three indicators, two of them with the same last_seen
SmallIndicators ==
    << [id |-> IndicatorId(1), type |-> "ip", value |-> <<"a", "B">>, confidence |-> 80,
        first_seen |-> 10, last_seen |-> 30],
       [id |-> IndicatorId(2), type |-> "domain", value |-> <<"b">>, confidence |-> 60,
        first_seen |-> 20, last_seen |-> 30],
       [id |-> IndicatorId(3), type |-> "ip", value |-> <<"A">>, confidence |-> 40,
        first_seen |-> 15, last_seen |-> 40] >>

CampaignIds == {"c1", "c2"}
ActorIds == {"a1"}

\* rows of campaign_indicators and of actor_campaigns
CampaignIndicator(c, i) == [campaign_id |-> c, indicator_id |-> i]
ActorCampaign(a, c) == [threat_actor_id |-> a, campaign_id |-> c]

\* the third indicator belongs to c1; the others to any campaigns, and the
\* actor to any campaigns
SmallStores ==
    { [indicators |-> SmallIndicators,
       campaign_indicators |-> ci \cup {CampaignIndicator("c1", IndicatorId(3))},
       actor_campaigns |-> ac] :
        ci \in SUBSET { CampaignIndicator(c, IndicatorId(k)) : c \in CampaignIds, k \in {1, 2} },
        ac \in SUBSET { ActorCampaign(a, c) : a \in ActorIds, c \in CampaignIds } }

\* one row more than the largest page, all last_seen distinct
BigStore ==
    [indicators |->
         [k \in 1..(MAX_LIMIT + 1) |->
             [id |-> IndicatorId(k), type |-> IF k % 2 = 1 THEN "ip" ELSE "url",
              value |-> <<"a">>, confidence |-> 50, first_seen |-> k, last_seen |-> 1000 + k]],
     campaign_indicators |-> {},
     actor_campaigns |-> {}]

EmptyStore == [indicators |-> <<>>, campaign_indicators |-> {}, actor_campaigns |-> {}]

LinkedStore ==
    [indicators |-> SmallIndicators,
     campaign_indicators |-> { CampaignIndicator(c, IndicatorId(k)) : c \in CampaignIds, k \in {1, 3} },
     actor_campaigns |-> { ActorCampaign("a1", "c1") }]

Rows(store) == { store.indicators[k] : k \in DOMAIN store.indicators }

\* the orders SQLite may give rows of equal last_seen: any, the ORDER BY
\* naming no other column
TieOrders(store) ==
    LET n == Len(store.indicators)
        ids == { r.id : r \in Rows(store) }
    IN  IF \A j, k \in 1..n : j # k => store.indicators[j].last_seen # store.indicators[k].last_seen
        THEN { [id \in ids |-> id[2]] }
        ELSE { f \in [ids -> 1..n] : \A x, y \in ids : x # y => f[x] # f[y] }

(***************************************************************************)
(* controllers/indicators.controller.ts: searchIndicators                  *)
(***************************************************************************)
\* lines 19-20: page = '1', limit = '20'
pageOf(q) == IF q.page.defined THEN q.page ELSE Str(<<"1">>)
limitOf(q) == IF q.limit.defined THEN q.limit ELSE Str(<<"2", "0">>)

\* line 23
pageNum(q) == parseInt(pageOf(q).text)

\* limitNum without the cap
limitNumUncapped(q) == parseInt(limitOf(q).text)

\* line 24
limitNum(q) == MathMin(parseInt(limitOf(q).text), Num(MAX_LIMIT))

\* line 25
offset(q) == Times(Minus(pageNum(q), Num(1)), limitNum(q))

\* invalidPagination looking at the page only
invalidPaginationPageOnly(q) == LessThan(pageNum(q), Num(1))

\* line 27
invalidPagination(q) == LessThan(pageNum(q), Num(1)) \/ LessThan(limitNum(q), Num(1))

\* line 28
invalidPaginationError(q) ==
    WrongParameters("Invalid pagination parameters, page and limit must be greater than 0",
                    [page |-> pageOf(q), limit |-> limitOf(q)])

\* lines 46-64: the tables joined to indicators
joinsCampaignIndicators(q) == TruthyName(q.threat_actor) \/ TruthyName(q.campaign)
joinsActorCampaigns(q) == TruthyName(q.threat_actor)

NoCampaignIndicator == CampaignIndicator("", IndicatorId(0))
NoActorCampaign == ActorCampaign("", "")

\* FROM indicators i [JOIN campaign_indicators ci ON i.id = ci.indicator_id
\* [JOIN actor_campaigns ac ON ci.campaign_id = ac.campaign_id]]
JoinRows(store, q) ==
    IF joinsActorCampaigns(q)
    THEN { [i |-> x[1], ci |-> x[2], ac |-> x[3]] :
             x \in { y \in Rows(store) \X store.campaign_indicators \X store.actor_campaigns :
                       y[1].id = y[2].indicator_id /\ y[2].campaign_id = y[3].campaign_id } }
    ELSE IF joinsCampaignIndicators(q)
    THEN { [i |-> x[1], ci |-> x[2], ac |-> NoActorCampaign] :
             x \in { y \in Rows(store) \X store.campaign_indicators :
                       y[1].id = y[2].indicator_id } }
    ELSE { [i |-> r, ci |-> NoCampaignIndicator, ac |-> NoActorCampaign] : r \in Rows(store) }

\* lines 36-80: WHERE conditions.join(' AND ')
where(q, row) ==
    /\ TruthyName(q.type) => row.i.type = q.type.text
    /\ Truthy(q.value) => Like(row.i.value, <<"%">> \o q.value.text \o <<"%">>)
    /\ TruthyName(q.threat_actor) => row.ac.threat_actor_id = q.threat_actor.text
    /\ TruthyName(q.campaign) => row.ci.campaign_id = q.campaign.text
    /\ TruthyTime(q.first_seen_after) => row.i.first_seen >= q.first_seen_after.text
    /\ TruthyTime(q.last_seen_before) => row.i.last_seen <= q.last_seen_before.text

\* the ids of the indicators both statements select
matchedIds(store, q) == { row.i.id : row \in { r \in JoinRows(store, q) : where(q, r) } }

\* countQuery counting the joined rows: COUNT(*)
countQueryRows(store, q) == Cardinality({ r \in JoinRows(store, q) : where(q, r) })

\* lines 82-83: SELECT COUNT(DISTINCT i.id) as total
countQuery(store, q) == Cardinality(matchedIds(store, q))

\* lines 85-86: SELECT DISTINCT ... ORDER BY i.last_seen DESC LIMIT ? OFFSET ?
\* (a negative LIMIT is no limit, a negative OFFSET is 0)
pageQuery(store, q, lim, off, tie) ==
    LET ids == matchedIds(store, q)
        sel == SelectSeq(store.indicators, LAMBDA r : r.id \in ids)
        sorted == SortSeq(sel, LAMBDA a, b :
                      \/ a.last_seen > b.last_seen
                      \/ a.last_seen = b.last_seen /\ tie[a.id] < tie[b.id])
        first == IF off < 0 THEN 0 ELSE off
        last == IF lim < 0 \/ first + lim > Len(sorted) THEN Len(sorted) ELSE first + lim
    IN  SubSeq(sorted, first + 1, last)

\* api/routes/indicators.ts lines 148-152, the lookup made row by row:
\* COUNT(DISTINCT campaign_id) ... WHERE indicator_id = ?
campaignCount(store, id) ==
    Cardinality({ ci.campaign_id : ci \in { c \in store.campaign_indicators : c.indicator_id = id } })

\* api/routes/indicators.ts lines 154-159, the lookup made row by row:
\* COUNT(DISTINCT ac.threat_actor_id) ... WHERE ci.indicator_id = ?
threatActorCount(store, id) ==
    Cardinality({ x[2].threat_actor_id :
        x \in { y \in store.campaign_indicators \X store.actor_campaigns :
                  y[1].indicator_id = id /\ y[1].campaign_id = y[2].campaign_id } })

\* lines 103-108: one row {indicator_id, count} for each id of the page that
\* has rows in campaign_indicators (GROUP BY indicator_id)
campaignCounts(store, ids) ==
    LET rows == { c \in store.campaign_indicators : c.indicator_id \in ids }
    IN  { [indicator_id |-> g,
           count |-> Cardinality({ c.campaign_id : c \in { x \in rows : x.indicator_id = g } })] :
          g \in { c.indicator_id : c \in rows } }

\* threatActorCounts with COUNT(ac.threat_actor_id), every joined row counted
threatActorCountsAll(store, ids) ==
    LET rows == { y \in store.campaign_indicators \X store.actor_campaigns :
                    y[1].campaign_id = y[2].campaign_id /\ y[1].indicator_id \in ids }
    IN  { [indicator_id |-> g,
           count |-> Cardinality({ x \in rows : x[1].indicator_id = g })] :
          g \in { y[1].indicator_id : y \in rows } }

\* lines 111-117: one row {indicator_id, count} for each id of the page that
\* has rows in the join (GROUP BY ci.indicator_id)
threatActorCounts(store, ids) ==
    LET rows == { y \in store.campaign_indicators \X store.actor_campaigns :
                    y[1].campaign_id = y[2].campaign_id /\ y[1].indicator_id \in ids }
    IN  { [indicator_id |-> g,
           count |-> Cardinality({ x[2].threat_actor_id :
                                     x \in { y \in rows : y[1].indicator_id = g } })] :
          g \in { y[1].indicator_id : y \in rows } }

\* lines 120-121 and 126-127: new Map(counts.map(...)).get(id) || 0
countOr0(counts, id) ==
    IF \E c \in counts : c.indicator_id = id
    THEN (CHOOSE c \in counts : c.indicator_id = id).count
    ELSE 0

\* lines 124-128
enrich(campaignCountMap, threatActorCountMap, r) ==
    [id |-> r.id, type |-> r.type, value |-> r.value, confidence |-> r.confidence,
     first_seen |-> r.first_seen, last_seen |-> r.last_seen,
     campaign_count |-> countOr0(campaignCountMap, r.id),
     threat_actor_count |-> countOr0(threatActorCountMap, r.id)]

\* a statement run against the store, with the LIMIT and OFFSET it was given
Statement(stmt, lim, off) == [stmt |-> stmt, limit |-> lim, offset |-> off]

\* SQLite refuses a LIMIT or OFFSET that is not an integer: bound NaN is NULL
SqliteError == [name |-> "SqliteError", http |-> FALSE]

\* lines 90-96 and 132-138: res.json({data, total, page, limit, total_pages})
searchResponse(data, total, q) ==
    [status |-> 200, cached |-> Absent,
     body |-> JSONStringify(
         [data |-> data, total |-> total, page |-> pageNum(q), limit |-> limitNum(q),
          total_pages |-> MathCeilDiv(total, limitNum(q).n)])]

\* lines 10-144: the handler over a store; tie is the order SQLite gives rows
\* of equal last_seen. The result is the response and the statements run.
searchIndicators(store, q, tie) ==
    IF invalidPagination(q)
    THEN [res |-> errorHandler(invalidPaginationError(q)), log |-> <<>>]
    ELSE LET total == countQuery(store, q)
             lim == limitNum(q)
             off == offset(q)
             counted == << Statement("count", NaN, NaN) >>
             paged == Append(counted, Statement("page", lim, off))
         IN  IF lim.nan \/ off.nan
             THEN [res |-> errorHandler(SqliteError), log |-> paged]
             ELSE LET indicators == pageQuery(store, q, lim.n, off.n, tie)
                  IN  IF Len(indicators) = 0
                      THEN [res |-> searchResponse(<<>>, total, q), log |-> paged]
                      ELSE [res |-> searchResponse(
                                LET indicatorIds ==
                                        { indicators[k].id : k \in 1..Len(indicators) }
                                    campaignCountMap == campaignCounts(store, indicatorIds)
                                    threatActorCountMap ==
                                        threatActorCounts(store, indicatorIds)
                                IN  [k \in 1..Len(indicators) |->
                                        enrich(campaignCountMap, threatActorCountMap,
                                               indicators[k])],
                                total, q),
                            log |-> paged \o << Statement("campaignCounts", NaN, NaN),
                                                Statement("threatActorCounts", NaN, NaN) >>]

(***************************************************************************)
(* SpecSearch: one search request over one store                           *)
(***************************************************************************)
NoFilters ==
    [type |-> UndefinedName, value |-> Undefined, threat_actor |-> UndefinedName,
     campaign |-> UndefinedName, first_seen_after |-> UndefinedTime,
     last_seen_before |-> UndefinedTime]

\* every combination of the six filters, each absent or with one value
FilterChoices ==
    [type : {UndefinedName, [defined |-> TRUE, text |-> "ip"]},
     value : {Undefined, Str(<<"b">>)},
     threat_actor : {UndefinedName, [defined |-> TRUE, text |-> "a1"]},
     campaign : {UndefinedName, [defined |-> TRUE, text |-> "c1"]},
     first_seen_after : {UndefinedTime, [defined |-> TRUE, text |-> 15]},
     last_seen_before : {UndefinedTime, [defined |-> TRUE, text |-> 30]}]

FewFilterChoices ==
    { NoFilters, [NoFilters EXCEPT !.type = [defined |-> TRUE, text |-> "ip"]],
      [NoFilters EXCEPT !.type = [defined |-> TRUE, text |-> ""]] }

FewPages == {Undefined, Str(<<"1">>), Str(<<"2">>)}
FewLimits == {Undefined, Str(<<"1">>), Str(<<"2">>)}
PageTexts ==
    {Undefined, Str(<<>>), Str(<<"0">>), Str(<<"1">>), Str(<<"2">>), Str(<<"3">>),
     Str(<<"-", "1">>), Str(<<"a", "b">>), Str(<<"2", "x">>), Str(<<" ", "2">>)}
LimitTexts ==
    {Undefined, Str(<<>>), Str(<<"0">>), Str(<<"1">>), Str(<<"3">>), Str(<<"5", "0">>),
     Str(<<"1", "0", "0">>), Str(<<"1", "0", "1">>), Str(<<"1", "5", "0">>),
     Str(<<"-", "5">>), Str(<<"a", "b">>)}

WithPaging(f, p, l) ==
    [type |-> f.type, value |-> f.value, threat_actor |-> f.threat_actor,
     campaign |-> f.campaign, first_seen_after |-> f.first_seen_after,
     last_seen_before |-> f.last_seen_before, page |-> p, limit |-> l]

InitSearch ==
    /\ clock = 1
    /\ ingested = 0
    /\ redis = [k \in CacheKeys |-> NilEntry]
    /\ reqs = [r \in Slots |-> IdleReq]
    /\ sPc = "start"
    /\ sRes = NoRes
    /\ sLog = <<>>
    /\ \/ /\ sStore \in SmallStores
          /\ \E f \in FilterChoices : \E p \in FewPages : \E l \in FewLimits :
                 sReq = WithPaging(f, p, l)
       \/ /\ sStore \in {BigStore, EmptyStore, LinkedStore}
          /\ \E f \in FewFilterChoices : \E p \in PageTexts : \E l \in LimitTexts :
                 sReq = WithPaging(f, p, l)

\* GET /api/indicators/search
SearchIndicators ==
    /\ sPc = "start"
    /\ \E tie \in TieOrders(sStore) :
           LET out == searchIndicators(sStore, sReq, tie)
           IN  sRes' = out.res /\ sLog' = out.log
    /\ sPc' = "done"
    /\ UNCHANGED <<sStore, sReq, dashVars>>

NextSearch == SearchIndicators

SpecSearch == InitSearch /\ [][NextSearch]_vars

(***************************************************************************)
(* data/indicators.ts: getIndicatorDetails, and getIndicatorById           *)
(***************************************************************************)
\* json_group_array over rows, F the json_object of a row: the array up to
\* the order of its elements, which the aggregate leaves open
JsonGroupArray(rows, F(_)) ==
    [e \in { F(r) : r \in rows } |-> Cardinality({ r \in rows : F(r) = e })]

\* tables of the detail query; times are day numbers, confidences percents
DetailIndicators ==
    { [id |-> IndicatorId(k), type |-> IF k % 2 = 1 THEN "ip" ELSE "domain",
       value |-> <<"a">>, confidence |-> 50, first_seen |-> 1, last_seen |-> 30,
       tags |-> "[]"] : k \in 1..7 }
DetailCampaigns ==
    { [id |-> "c1", name |-> "C1", status |-> "active"],
      [id |-> "c2", name |-> "C2", status |-> "dormant"] }
ThreatActors == { [id |-> "a1", name |-> "A1"], [id |-> "a2", name |-> "A2"] }

\* the first indicator has n outgoing edges, to the next n indicators, and
\* one incoming edge
Relationships(n) ==
    { [source_indicator_id |-> IndicatorId(1), target_indicator_id |-> IndicatorId(k + 1),
       relationship_type |-> "related", first_observed |-> k] : k \in 1..n }
    \cup { [source_indicator_id |-> IndicatorId(2), target_indicator_id |-> IndicatorId(1),
            relationship_type |-> "related", first_observed |-> 9] }

\* line 54: LIMIT 5
RELATED_LIMIT == 5

DetailStores ==
    { [indicators |-> DetailIndicators, campaigns |-> DetailCampaigns,
       threat_actors |-> ThreatActors, indicator_relationships |-> Relationships(n),
       campaign_indicators |-> ci, actor_campaigns |-> ac] :
        n \in {0, 1, RELATED_LIMIT, RELATED_LIMIT + 1},
        ci \in SUBSET { [campaign_id |-> "c1", indicator_id |-> IndicatorId(1), observed_at |-> 10],
                        [campaign_id |-> "c2", indicator_id |-> IndicatorId(1), observed_at |-> 20] },
        ac \in SUBSET { [threat_actor_id |-> "a1", campaign_id |-> "c1", confidence |-> 90],
                        [threat_actor_id |-> "a2", campaign_id |-> "c1", confidence |-> 50],
                        [threat_actor_id |-> "a2", campaign_id |-> "c2", confidence |-> 90],
                        [threat_actor_id |-> "a1", campaign_id |-> "c2", confidence |-> 90] } }

\* lines 21-25: FROM threat_actors ta JOIN actor_campaigns ac JOIN
\* campaign_indicators ci WHERE ci.indicator_id = i.id
threatActorRows(store, id) ==
    { [ta |-> x[1], ac |-> x[2], ci |-> x[3]] :
        x \in { y \in store.threat_actors \X store.actor_campaigns \X store.campaign_indicators :
                  /\ y[1].id = y[2].threat_actor_id
                  /\ y[2].campaign_id = y[3].campaign_id
                  /\ y[3].indicator_id = id } }

\* line 25: GROUP BY ta.id, ta.name, ac.confidence
threatActorGroup(r) == [id |-> r.ta.id, name |-> r.ta.name, confidence |-> r.ac.confidence]

\* lines 13-27: the scalar subquery gives the first row of the grouped and
\* ordered result, which is the array of one group of the highest confidence,
\* or NULL when there is no group; first is that group
threatActorsFirstRows(store, id) ==
    LET groups == { threatActorGroup(r) : r \in threatActorRows(store, id) }
    IN  IF groups = {} THEN { [id |-> "", name |-> "", confidence |-> 0] }
        ELSE { g \in groups : \A h \in groups : h.confidence <= g.confidence }
threatActors(store, id, first) ==
    LET rows == { r \in threatActorRows(store, id) : threatActorGroup(r) = first }
    IN  IF threatActorRows(store, id) = {}
        THEN [null |-> TRUE, items |-> JsonGroupArray({}, threatActorGroup)]
        ELSE [null |-> FALSE, items |-> JsonGroupArray(rows, threatActorGroup)]

\* lines 28-40: one aggregate over every joined row
campaignEntry(r) == [id |-> r[1].id, name |-> r[1].name, status |-> r[1].status]
campaignsOf(store, id) ==
    JsonGroupArray({ y \in store.campaigns \X store.campaign_indicators :
                       y[1].id = y[2].campaign_id /\ y[2].indicator_id = id },
                   campaignEntry)

\* lines 41-55: one aggregate over every joined row; ORDER BY and LIMIT 5
\* apply to the one row the aggregate gives
relatedEntry(r) ==
    [id |-> r[1].id, type |-> r[1].type, value |-> r[1].value,
     relationship |-> r[2].relationship_type]
relatedIndicators(store, id) ==
    JsonGroupArray({ y \in store.indicators \X store.indicator_relationships :
                       y[1].id = y[2].target_indicator_id /\ y[2].source_indicator_id = id },
                   relatedEntry)

\* lines 3-60: the row {data} of the indicator, or undefined
getIndicatorDetails(store, id, first) ==
    IF \A i \in store.indicators : i.id # id
    THEN [found |-> FALSE, data |-> NoText]
    ELSE LET i == CHOOSE r \in store.indicators : r.id = id
         IN  [found |-> TRUE,
              data |-> SqliteJson(
                  [id |-> i.id, type |-> i.type, value |-> i.value,
                   confidence |-> i.confidence, first_seen |-> i.first_seen,
                   last_seen |-> i.last_seen, tags |-> i.tags,
                   threatActors |-> threatActors(store, id, first),
                   campaigns |-> campaignsOf(store, id),
                   relatedIndicators |-> relatedIndicators(store, id)])]

\* a call of a data-layer function with an id
DataCall(fn, id) == [stmt |-> fn, id |-> id]

\* reading a property of undefined
TypeError == [name |-> "TypeError", http |-> FALSE]

\* getIndicatorById without the check of the row
getIndicatorByIdUnchecked(store, id, first) ==
    LET indicator == getIndicatorDetails(store, id, first)
        log == << DataCall("getIndicatorDetails", id) >>
    IN  IF ~indicator.found THEN [res |-> errorHandler(TypeError), log |-> log]
        ELSE [res |-> [status |-> 200, cached |-> Absent,
                       body |-> JSONStringify(JSONParse(indicator.data).value)],
              log |-> log]

\* controllers/indicators.controller.ts lines 150-166
getIndicatorById(store, id, first) ==
    LET indicator == getIndicatorDetails(store, id, first)
        log == << DataCall("getIndicatorDetails", id) >>
    IN  IF ~indicator.found
        THEN [res |-> errorHandler(NotFound("Indicator not found", [id |-> id])), log |-> log]
        ELSE [res |-> [status |-> 200, cached |-> Absent,
                       body |-> JSONStringify(JSONParse(indicator.data).value)],
              log |-> log]

(***************************************************************************)
(* SpecDetail: one detail request over one store                           *)
(***************************************************************************)
DetailIds == { IndicatorId(1), IndicatorId(2), IndicatorId(3), IndicatorId(8), IndicatorId(0) }

InitDetail ==
    /\ clock = 1
    /\ ingested = 0
    /\ redis = [k \in CacheKeys |-> NilEntry]
    /\ reqs = [r \in Slots |-> IdleReq]
    /\ sPc = "start"
    /\ sRes = NoRes
    /\ sLog = <<>>
    /\ sStore \in DetailStores
    /\ \E id \in DetailIds : sReq = [id |-> id]

\* GET /api/indicators/:id
GetIndicatorById ==
    /\ sPc = "start"
    /\ \E first \in threatActorsFirstRows(sStore, sReq.id) :
           LET out == getIndicatorById(sStore, sReq.id, first)
           IN  sRes' = out.res /\ sLog' = out.log
    /\ sPc' = "done"
    /\ UNCHANGED <<sStore, sReq, dashVars>>

NextDetail == GetIndicatorById

SpecDetail == InitDetail /\ [][NextDetail]_vars

(***************************************************************************)
(* data/campaigns.ts: getCampaignDetails, and getCampaignIndicators        *)
(***************************************************************************)
\* A timestamp text is <<day, time>>: the number of its calendar day (day 1 a
\* Monday) and 0 when the text is a date only, else 1 + the second of the
\* day. The order of the pairs is the order of the texts.
TextLessEq(a, b) == a[1] < b[1] \/ (a[1] = b[1] /\ a[2] <= b[2])

\* SQLite date(x): the date of the text, without its time
date(x) == <<x[1], 0>>

\* day of the week, 0 a Sunday
WeekdayOf(d) == d % 7

\* SQLite date(x, 'weekday 1', '-7 days'): forward to the next Monday, the
\* day itself if it is one, then back seven days
dateWeek(x) == <<(x[1] + ((1 - WeekdayOf(x[1]) + 7) % 7)) - 7, 0>>

\* lines 38-41: CASE WHEN :group_by = 'week' THEN ... ELSE date(ci.observed_at) END
period(x, group_by) == IF group_by = "week" THEN dateWeek(x) ELSE date(x)

UndefinedDate == [defined |-> FALSE, text |-> <<0, 0>>]

\* the filter that lets every row through
inRangeUnbounded(x, start_date, end_date) == TRUE

\* lines 49 and 64: date(ci.observed_at) BETWEEN COALESCE(:start_date,
\* ci.observed_at) AND COALESCE(:end_date, ci.observed_at); undefined is
\* bound as NULL
inRange(x, start_date, end_date) ==
    /\ TextLessEq(IF start_date.defined THEN start_date.text ELSE x, date(x))
    /\ TextLessEq(date(x), IF end_date.defined THEN end_date.text ELSE x)

\* campaign_indicators ci JOIN indicators i WHERE ci.campaign_id = c.id
observations(store, id) ==
    { y \in store.campaign_indicators \X store.indicators :
        y[1].indicator_id = y[2].id /\ y[1].campaign_id = id }

timelineIndicator(r) == [id |-> r[2].id, type |-> r[2].type]

\* lines 15-53: one entry for each period of the rows in range, by ascending
\* period; its counts are over the rows in range, its indicators over every
\* row of the campaign with that period (lines 20-27)
timeline(store, id, start_date, end_date, group_by) ==
    LET rows == { r \in observations(store, id) :
                    inRange(r[1].observed_at, start_date, end_date) }
        periods == { period(r[1].observed_at, group_by) : r \in rows }
        nth(k) == CHOOSE p \in periods :
                      Cardinality({ q \in periods : q[1] < p[1] }) = k - 1
        count(p, ty) == Cardinality({ r \in rows :
                            period(r[1].observed_at, group_by) = p /\ r[2].type = ty })
    IN  [k \in 1..Cardinality(periods) |->
            [period |-> nth(k),
             indicators |-> JsonGroupArray(
                 { r \in observations(store, id) :
                     period(r[1].observed_at, group_by) = nth(k) }, timelineIndicator),
             counts |-> [ty \in IndicatorTypes |-> count(nth(k), ty)]]]

\* summary over every observation of the campaign, whatever the bounds
summaryUnfiltered(store, c, start_date, end_date) ==
    LET rows == observations(store, c.id)
    IN  [total_indicators |-> Cardinality(rows),
         unique_domains |-> SumCase({ r[2] : r \in rows }, "domain"),
         unique_ips |-> SumCase({ r[2] : r \in rows }, "ip"),
         duration |-> c.last_seen - c.first_seen]

\* lines 54-65
summary(store, c, start_date, end_date) ==
    LET rows == { r \in observations(store, c.id) :
                    inRange(r[1].observed_at, start_date, end_date) }
    IN  [total_indicators |-> Cardinality(rows),
         unique_domains |-> SumCase({ r[2] : r \in rows }, "domain"),
         unique_ips |-> SumCase({ r[2] : r \in rows }, "ip"),
         duration |-> c.last_seen - c.first_seen]

\* lines 3-70: the row {data} of the campaign, or undefined
getCampaignDetails(store, id, start_date, end_date, group_by) ==
    IF \A c \in store.campaigns : c.id # id
    THEN [found |-> FALSE, data |-> NoText]
    ELSE LET c == CHOOSE x \in store.campaigns : x.id = id
         IN  [found |-> TRUE,
              data |-> SqliteJson(
                  [campaign |-> c,
                   timeline |-> timeline(store, id, start_date, end_date, group_by),
                   summary |-> summary(store, c, start_date, end_date)])]

\* group_by defaulted with ||
groupByOfOr(q) == IF TruthyName(q.group_by) THEN q.group_by.text ELSE "day"

\* controllers/campaigns.controller.ts line 14
groupByOf(q) == IF q.group_by.defined THEN q.group_by.text ELSE "day"

\* getCampaignIndicators without the check of the row
getCampaignIndicatorsUnchecked(store, id, q) ==
    IF groupByOf(q) \notin {"day", "week"}
    THEN [res |-> errorHandler(WrongParameters(
                      "Invalid group_by parameter. Must be \"day\" or \"week\"",
                      [group_by |-> groupByOf(q)])),
          log |-> <<>>]
    ELSE LET campaign == getCampaignDetails(store, id, q.start_date, q.end_date, groupByOf(q))
             log == << DataCall("getCampaignDetails", id) >>
         IN  IF ~campaign.found THEN [res |-> errorHandler(TypeError), log |-> log]
             ELSE [res |-> [status |-> 200, cached |-> Absent,
                            body |-> JSONStringify(JSONParse(campaign.data).value)],
                   log |-> log]

\* controllers/campaigns.controller.ts lines 9-31
getCampaignIndicators(store, id, q) ==
    IF groupByOf(q) \notin {"day", "week"}
    THEN [res |-> errorHandler(WrongParameters(
                      "Invalid group_by parameter. Must be \"day\" or \"week\"",
                      [group_by |-> groupByOf(q)])),
          log |-> <<>>]
    ELSE LET campaign == getCampaignDetails(store, id, q.start_date, q.end_date, groupByOf(q))
             log == << DataCall("getCampaignDetails", id) >>
         IN  IF ~campaign.found
             THEN [res |-> errorHandler(NotFound("Campaign not found", [id |-> id])),
                   log |-> log]
             ELSE [res |-> [status |-> 200, cached |-> Absent,
                            body |-> JSONStringify(JSONParse(campaign.data).value)],
                   log |-> log]

(***************************************************************************)
(* SpecTimeline: one timeline request over one store                       *)
(***************************************************************************)
\* observations of campaign c1: a Monday morning, a Sunday given as a date,
\* the last second of the next Monday, the first second of a Wednesday; c2
\* has one observation and c3 none
TimelineStores ==
    { [indicators |-> { [id |-> IndicatorId(k),
                         type |-> IF k % 2 = 1 THEN "ip" ELSE "domain"] : k \in 1..4 },
       campaigns |-> { [id |-> c, name |-> c, description |-> "", first_seen |-> 1,
                        last_seen |-> 61, status |-> "active"] : c \in {"c1", "c2", "c3"} },
       campaign_indicators |->
           obs \cup { [campaign_id |-> "c2", indicator_id |-> IndicatorId(1),
                       observed_at |-> <<8, 0>>] }] :
        obs \in SUBSET { [campaign_id |-> "c1", indicator_id |-> IndicatorId(1),
                          observed_at |-> <<1, 36001>>],
                         [campaign_id |-> "c1", indicator_id |-> IndicatorId(2),
                          observed_at |-> <<7, 0>>],
                         [campaign_id |-> "c1", indicator_id |-> IndicatorId(3),
                          observed_at |-> <<8, 86400>>],
                         [campaign_id |-> "c1", indicator_id |-> IndicatorId(4),
                          observed_at |-> <<10, 1>>] } }

TimelineRequests ==
    [id : {"c1", "c3", "c9"},
     start_date : {UndefinedDate} \cup { [defined |-> TRUE, text |-> <<d, 0>>] : d \in {1, 7, 20} },
     end_date : {UndefinedDate} \cup { [defined |-> TRUE, text |-> <<d, 0>>] : d \in {7, 8} },
     group_by : {UndefinedName} \cup
                { [defined |-> TRUE, text |-> g] : g \in {"day", "week", "", "month", "toString"} }]

InitTimeline ==
    /\ clock = 1
    /\ ingested = 0
    /\ redis = [k \in CacheKeys |-> NilEntry]
    /\ reqs = [r \in Slots |-> IdleReq]
    /\ sPc = "start"
    /\ sRes = NoRes
    /\ sLog = <<>>
    /\ sStore \in TimelineStores
    /\ sReq \in TimelineRequests

\* GET /api/campaigns/:id/indicators
GetCampaignIndicators ==
    /\ sPc = "start"
    /\ LET out == getCampaignIndicators(sStore, sReq.id, sReq)
       IN  sRes' = out.res /\ sLog' = out.log
    /\ sPc' = "done"
    /\ UNCHANGED <<sStore, sReq, dashVars>>

NextTimeline == GetCampaignIndicators

SpecTimeline == InitTimeline /\ [][NextTimeline]_vars

(***************************************************************************)
(* SpecFault: one request to one of the three store handlers, with a       *)
(* statement of the data layer that may throw                              *)
(***************************************************************************)
\* what a statement of better-sqlite3 or a mocked data function throws
ThrownErrors ==
    { [name |-> "Error", http |-> FALSE, message |-> "Database error"],
      [name |-> "SqliteError", http |-> FALSE, message |-> "database is locked"] }

\* the at-th call of the data layer throws err, no call when at = 0; a
\* handler runs at most the four statements of searchIndicators
Faults == [at : 0..4, err : ThrownErrors]

\* catch (error) { console.error(...); next(error); } of the three handlers:
\* out is what the handler does when nothing is thrown from outside
catchAndNext(out, fault) ==
    IF fault.at = 0 \/ Len(out.log) < fault.at THEN out
    ELSE [res |-> errorHandler(fault.err), log |-> SubSeq(out.log, 1, fault.at)]

InitFault ==
    /\ clock = 1
    /\ ingested = 0
    /\ redis = [k \in CacheKeys |-> NilEntry]
    /\ reqs = [r \in Slots |-> IdleReq]
    /\ sPc = "start"
    /\ sRes = NoRes
    /\ sLog = <<>>
    /\ \E fault \in Faults :
        \/ /\ sStore \in {BigStore, EmptyStore, LinkedStore}
           /\ \E f \in FewFilterChoices : \E p \in PageTexts : \E l \in LimitTexts :
                  sReq = [handler |-> "searchIndicators", req |-> WithPaging(f, p, l),
                          fault |-> fault]
        \/ /\ sStore \in DetailStores
           /\ \E id \in DetailIds :
                  sReq = [handler |-> "getIndicatorById", req |-> [id |-> id],
                          fault |-> fault]
        \/ /\ sStore \in TimelineStores
           /\ \E q \in TimelineRequests :
                  sReq = [handler |-> "getCampaignIndicators", req |-> q, fault |-> fault]

\* GET /api/indicators/search
FaultySearchIndicators ==
    /\ sPc = "start" /\ sReq.handler = "searchIndicators"
    /\ \E tie \in TieOrders(sStore) :
           LET out == catchAndNext(searchIndicators(sStore, sReq.req, tie), sReq.fault)
           IN  sRes' = out.res /\ sLog' = out.log
    /\ sPc' = "done"
    /\ UNCHANGED <<sStore, sReq, dashVars>>

\* GET /api/indicators/:id
FaultyGetIndicatorById ==
    /\ sPc = "start" /\ sReq.handler = "getIndicatorById"
    /\ \E first \in threatActorsFirstRows(sStore, sReq.req.id) :
           LET out == catchAndNext(getIndicatorById(sStore, sReq.req.id, first), sReq.fault)
           IN  sRes' = out.res /\ sLog' = out.log
    /\ sPc' = "done"
    /\ UNCHANGED <<sStore, sReq, dashVars>>

\* GET /api/campaigns/:id/indicators
FaultyGetCampaignIndicators ==
    /\ sPc = "start" /\ sReq.handler = "getCampaignIndicators"
    /\ LET out == catchAndNext(getCampaignIndicators(sStore, sReq.req.id, sReq.req),
                               sReq.fault)
       IN  sRes' = out.res /\ sLog' = out.log
    /\ sPc' = "done"
    /\ UNCHANGED <<sStore, sReq, dashVars>>

NextFault ==
    \/ FaultySearchIndicators
    \/ FaultyGetIndicatorById
    \/ FaultyGetCampaignIndicators

SpecFault == InitFault /\ [][NextFault]_vars

(***************************************************************************)
(* Properties of the dashboard handler                                     *)
(***************************************************************************)
\* the three ranges the API documents
DocumentedRanges == {"24h", "7d", "30d"}

\* the body of a response freshly computed at time t over store version n
ComputedBody(timeRange, t, n) == JSONStringify(getDashboardDataAt(timeRange, t, n).value)

\* C1: a request with a valid time_range ends in a 200 and no error reaches
\* the error handler, whichever of the cache read and the cache write failed;
\* when one of them failed, the body is the document getDashboardData
\* computed during the request, without the cache-hit marker.
C1_CacheFailuresAbsorbed ==
    \A r \in DOMAIN reqs :
        LET q == reqs[r]
        IN  (q.pc = "done" /\ q.timeRange \in DocumentedRanges) =>
                /\ q.res.status = 200
                /\ q.nextError = "none"
                /\ (q.getFailed \/ q.setFailed) =>
                       /\ q.res.cached = Absent
                       /\ q.dbCalls = 1
                       /\ q.res.body = ComputedBody(q.timeRange, q.computedAt, q.computedVer)

\* a request whose cache read and cache write both failed was answered 200
C1_Witness ==
    \E r \in DOMAIN reqs :
        /\ reqs[r].pc = "done" /\ reqs[r].getFailed /\ reqs[r].setFailed
        /\ reqs[r].res.status = 200

\* C2: a request whose GET returned a stored value never queries the store nor
\* writes the cache, and is answered 200 with the header cached: redis and the
\* stored document as its body.
C2_HitServedFromCache ==
    \A r \in DOMAIN reqs :
        LET q == reqs[r]
        IN  q.got # NoText =>
                /\ q.pc \in {"reply", "done"}
                /\ q.dbCalls = 0 /\ q.setexCalls = 0
                /\ q.pc = "done" =>
                       /\ q.res.status = 200
                       /\ q.res.cached = "redis"
                       /\ q.res.body = q.got

\* a request was answered from the cache
C2_Witness ==
    \E r \in DOMAIN reqs :
        /\ reqs[r].pc = "done" /\ reqs[r].got # NoText /\ reqs[r].res.cached = "redis"

\* C3: a stored key lives for exactly CACHE_TTL seconds unless evicted; with
\* the cache reachable, a request reading the key less than 300 s after it was
\* stored gets the body of the response that stored it and is marked as a hit,
\* and a request reading it 300 s or more after, or after its eviction,
\* computes afresh and is not marked.
C3_HitWithinTtlFreshAfter ==
    /\ \A k \in CacheKeys :
           /\ redis[k].state = "live" => now - redis[k].storedAt < 300
           /\ redis[k].state = "expired" => now - redis[k].storedAt >= 300
    /\ \A r \in DOMAIN reqs :
           LET q == reqs[r]
               within == q.seen.state # "none" /\ q.readAt - q.seen.storedAt < 300
           IN  (q.readAt >= 0 /\ q.timeRange \in DocumentedRanges) =>
                   /\ within =>
                          /\ q.got # NoText
                          /\ q.pc = "done" =>
                                 /\ q.res.cached = "redis"
                                 /\ q.res.body = q.seen.respBody
                                 /\ q.dbCalls = 0
                   /\ ~within =>
                          /\ q.got = NoText
                          /\ q.pc = "done" =>
                                 /\ q.res.cached = Absent
                                 /\ q.dbCalls = 1
                                 /\ q.res.body =
                                        ComputedBody(q.timeRange, q.computedAt, q.computedVer)

\* a hit 299 s after the store, and a fresh computation on an expired key
C3_Witness ==
    \E r \in DOMAIN reqs :
        /\ reqs[r].pc = "done" /\ reqs[r].res.cached = "redis"
        /\ reqs[r].readAt - reqs[r].seen.storedAt = 299

\* C4 as claimed: every 200 response equals what getDashboardData would
\* compute at the moment of the response.
C4_ResponseEqualsFreshDocument ==
    \A r \in DOMAIN reqs :
        (reqs[r].pc = "done" /\ reqs[r].res.status = 200) =>
            reqs[r].res.body = reqs[r].freshNow

\* C4 amended: every 200 response is a document getDashboardData computed for
\* the requested range: during the request itself when it is not marked as a
\* hit, and otherwise by an earlier request, from the store as it was then,
\* stored less than 300 s before the cache read.
C4_ResponseIsComputedDocument ==
    \A r \in DOMAIN reqs :
        LET q == reqs[r]
        IN  (q.pc = "done" /\ q.res.status = 200) =>
                \/ /\ q.res.cached = Absent
                   /\ q.dbCalls = 1
                   /\ q.res.body = ComputedBody(q.timeRange, q.computedAt, q.computedVer)
                \/ /\ q.res.cached = "redis"
                   /\ q.dbCalls = 0
                   /\ q.res.body = ComputedBody(q.timeRange, q.seen.srcAt, q.seen.srcVer)
                   /\ q.seen.srcAt <= q.seen.storedAt
                   /\ q.seen.storedAt <= q.readAt
                   /\ q.readAt - q.seen.storedAt < 300

\* a hit whose body is not what the query would compute now
C4_Witness ==
    \E r \in DOMAIN reqs :
        /\ reqs[r].pc = "done" /\ reqs[r].res.cached = "redis"
        /\ reqs[r].res.body # reqs[r].freshNow

\* both requests missed the same key and computed from the same store at the
\* same moment
RacedOn(r1, r2) ==
    /\ r1 # r2
    /\ reqs[r1].timeRange = reqs[r2].timeRange
    /\ reqs[r1].dbCalls = 1 /\ reqs[r2].dbCalls = 1
    /\ reqs[r1].computedAt = reqs[r2].computedAt
    /\ reqs[r1].computedVer = reqs[r2].computedVer

C6_InvalidRangeRejectedEarly ==
    \A r \in DOMAIN reqs :
        LET q == reqs[r]
        IN  (q.pc # "idle" /\ q.timeRange \notin DocumentedRanges) =>
                /\ q.pc = "done"
                /\ q.nextError = "WrongParameters"
                /\ q.res.status = 400
                /\ q.res.body = JSONStringify(
                       [error |-> <<"Invalid time_range. Must be one of: ",
                                    <<"24h", "7d", "30d">> >>,
                        code |-> "WRONG_PARAMETERS",
                        details |-> [time_range |-> q.timeRange]])
                /\ q.getCalls = 0 /\ q.dbCalls = 0 /\ q.setexCalls = 0

(***************************************************************************)
(* Properties of the search handler                                        *)
(***************************************************************************)
\* a string that is an integer written in decimal, and its value
IsIntegerText(t) ==
    LET body == IF t # <<>> /\ Head(t) = "-" THEN Tail(t) ELSE t
    IN  body # <<>> /\ \A k \in 1..Len(body) : IsDigit(body[k])
IntegerValue(t) ==
    IF Head(t) = "-" THEN 0 - DigitsValue(Tail(t)) ELSE DigitsValue(t)

\* the request gives this member as an integer below / above n
GivenBelow(p, n) == p.defined /\ IsIntegerText(p.text) /\ IntegerValue(p.text) < n
GivenAbove(p, n) == p.defined /\ IsIntegerText(p.text) /\ IntegerValue(p.text) > n

\* the response body, and the ids of its rows
SearchBody == JSONParse(sRes.body).value
SearchDataIds == { SearchBody.data[k].id : k \in DOMAIN SearchBody.data }

\* C7: a search request whose page or limit is an integer below 1 is answered
\* 400 WRONG_PARAMETERS with details carrying page and limit, and runs no
\* statement against the store.
C7_InvalidPaginationRejected ==
    (sPc = "done" /\ (GivenBelow(sReq.page, 1) \/ GivenBelow(sReq.limit, 1))) =>
        /\ sRes.status = 400
        /\ SearchBody.code = "WRONG_PARAMETERS"
        /\ SearchBody.details =
               [page |-> IF sReq.page.defined THEN sReq.page ELSE Str(<<"1">>),
                limit |-> IF sReq.limit.defined THEN sReq.limit ELSE Str(<<"2", "0">>)]
        /\ sLog = <<>>

\* a request over a store with rows, page 2 and limit 0, was rejected
C7_Witness ==
    /\ sPc = "done" /\ sStore.indicators # <<>>
    /\ sReq.page = Str(<<"2">>) /\ sReq.limit = Str(<<"0">>)
    /\ sRes.status = 400

\* C8: for a search request with an integer limit above 100, the page
\* statement is given LIMIT 100 and OFFSET (page - 1) * 100, and a successful
\* response reports limit 100, total_pages = ceil(total / 100) and at most
\* 100 rows.
C8_LimitCappedAt100 ==
    (sPc = "done" /\ GivenAbove(sReq.limit, 100)) =>
        /\ \A k \in DOMAIN sLog :
               sLog[k].stmt = "page" =>
                   /\ sLog[k].limit = Num(100)
                   /\ sRes.status = 200 =>
                          sLog[k].offset = Num((SearchBody.page.n - 1) * 100)
        /\ sRes.status = 200 =>
               /\ SearchBody.limit = Num(100)
               /\ Len(SearchBody.data) <= 100
               /\ ~SearchBody.total_pages.nan
               /\ SearchBody.total_pages.n * 100 >= SearchBody.total
               /\ (SearchBody.total_pages.n - 1) * 100 < SearchBody.total

\* limit 150 over 101 rows: a full page of 100
C8_Witness ==
    /\ sPc = "done" /\ sReq.limit = Str(<<"1", "5", "0">>)
    /\ sRes.status = 200
    /\ SearchBody.total = 101 /\ Len(SearchBody.data) = 100

\* C9: every successful search response has a limit in 1..100, which is the
\* requested integer limit capped at 100 or the default 20, and
\* total_pages = ceil(total / limit): the least n with n * limit >= total,
\* which is 0 when total = 0; this on the path of an empty page and on the
\* path of a page with rows.
C9_TotalPagesIsCeiling ==
    (sPc = "done" /\ sRes.status = 200) =>
        /\ ~SearchBody.limit.nan /\ SearchBody.limit.n \in 1..100
        /\ ~sReq.limit.defined => SearchBody.limit.n = 20
        /\ (sReq.limit.defined /\ IsIntegerText(sReq.limit.text)) =>
               SearchBody.limit.n = (IF IntegerValue(sReq.limit.text) > 100 THEN 100
                                     ELSE IntegerValue(sReq.limit.text))
        /\ ~SearchBody.total_pages.nan
        /\ SearchBody.total_pages.n * SearchBody.limit.n >= SearchBody.total
        /\ (SearchBody.total_pages.n - 1) * SearchBody.limit.n < SearchBody.total
        /\ SearchBody.total = 0 => SearchBody.total_pages.n = 0
        /\ (Len(SearchBody.data) = 0) = (Len(sLog) = 2)

\* an empty page past the end of 101 rows, 100 to a page: 2 pages
C9_Witness ==
    /\ sPc = "done" /\ sRes.status = 200
    /\ Len(SearchBody.data) = 0
    /\ SearchBody.total = 101 /\ SearchBody.limit.n = 100 /\ SearchBody.total_pages.n = 2

\* the request with one filter only
FilterNames ==
    {"type", "value", "threat_actor", "campaign", "first_seen_after", "last_seen_before"}
Supplied(q, f) ==
    CASE f = "type" -> TruthyName(q.type)
      [] f = "value" -> Truthy(q.value)
      [] f = "threat_actor" -> TruthyName(q.threat_actor)
      [] f = "campaign" -> TruthyName(q.campaign)
      [] f = "first_seen_after" -> TruthyTime(q.first_seen_after)
      [] f = "last_seen_before" -> TruthyTime(q.last_seen_before)
Alone(q, f) ==
    CASE f = "type" -> [NoFilters EXCEPT !.type = q.type]
      [] f = "value" -> [NoFilters EXCEPT !.value = q.value]
      [] f = "threat_actor" -> [NoFilters EXCEPT !.threat_actor = q.threat_actor]
      [] f = "campaign" -> [NoFilters EXCEPT !.campaign = q.campaign]
      [] f = "first_seen_after" -> [NoFilters EXCEPT !.first_seen_after = q.first_seen_after]
      [] f = "last_seen_before" -> [NoFilters EXCEPT !.last_seen_before = q.last_seen_before]

\* the indicators every supplied filter matches when applied alone
IntersectionOfFilters(store, q) ==
    { r.id : r \in { x \in Rows(store) :
        \A f \in FilterNames : Supplied(q, f) => x.id \in matchedIds(store, Alone(q, f)) } }

\* C10: the indicators a successful search matches are those every supplied
\* filter matches when applied alone: total counts them and every row of
\* data is one of them.
C10_FiltersAreIntersection ==
    (sPc = "done" /\ sRes.status = 200) =>
        /\ SearchBody.total = Cardinality(IntersectionOfFilters(sStore, sReq))
        /\ SearchDataIds \subseteq IntersectionOfFilters(sStore, sReq)

\* the indicator satisfies the filters of the request: each supplied filter
\* on its columns, and the campaign / threat actor filters on one campaign
\* the indicator belongs to
MatchesFilters(store, q, r) ==
    /\ TruthyName(q.type) => r.type = q.type.text
    /\ Truthy(q.value) => Like(r.value, <<"%">> \o q.value.text \o <<"%">>)
    /\ TruthyTime(q.first_seen_after) => r.first_seen >= q.first_seen_after.text
    /\ TruthyTime(q.last_seen_before) => r.last_seen <= q.last_seen_before.text
    /\ (TruthyName(q.threat_actor) \/ TruthyName(q.campaign)) =>
           \E ci \in store.campaign_indicators :
               /\ ci.indicator_id = r.id
               /\ TruthyName(q.campaign) => ci.campaign_id = q.campaign.text
               /\ TruthyName(q.threat_actor) =>
                      \E ac \in store.actor_campaigns :
                          /\ ac.campaign_id = ci.campaign_id
                          /\ ac.threat_actor_id = q.threat_actor.text
MatchingIds(store, q) == { r.id : r \in { x \in Rows(store) : MatchesFilters(store, q, x) } }

\* min(limit, max(0, total - (page - 1) * limit))
PageLength(total, page, limit) ==
    LET rest == IF total - ((page - 1) * limit) < 0 THEN 0 ELSE total - ((page - 1) * limit)
    IN  IF limit < rest THEN limit ELSE rest

\* C11: in a successful search response total is the number of distinct
\* indicators of the store matching the filters, whatever the page and the
\* limit; data holds distinct matching indicators and has
\* min(limit, max(0, total - (page - 1) * limit)) rows, none past the end.
C11_TotalAndPageLength ==
    (sPc = "done" /\ sRes.status = 200) =>
        /\ SearchBody.total = Cardinality(MatchingIds(sStore, sReq))
        /\ SearchDataIds \subseteq MatchingIds(sStore, sReq)
        /\ \A j, k \in DOMAIN SearchBody.data :
               j # k => SearchBody.data[j].id # SearchBody.data[k].id
        /\ Len(SearchBody.data) =
               PageLength(SearchBody.total, SearchBody.page.n, SearchBody.limit.n)
        /\ (SearchBody.page.n - 1) * SearchBody.limit.n >= SearchBody.total =>
               SearchBody.data = <<>>

\* the last page of 101 rows, 100 to a page: one row
C11_Witness ==
    /\ sPc = "done" /\ sRes.status = 200
    /\ SearchBody.total = 101 /\ SearchBody.page.n = 2 /\ Len(SearchBody.data) = 1

\* C25: in every search response each row carries as campaign_count and
\* threat_actor_count what the lookup made row by row gives for its id: the
\* number of distinct campaigns of the indicator, and the number of distinct
\* threat actors linked through those campaigns, 0 when there is none.
C25_BatchedCountsEqualPerRow ==
    (sPc = "done" /\ sRes.status = 200) =>
        \A k \in DOMAIN SearchBody.data :
            /\ SearchBody.data[k].campaign_count =
                   campaignCount(sStore, SearchBody.data[k].id)
            /\ SearchBody.data[k].threat_actor_count =
                   threatActorCount(sStore, SearchBody.data[k].id)

\* a page with a row in two campaigns of the same actor and a row in none
C25_Witness ==
    /\ sPc = "done" /\ sRes.status = 200
    /\ \E k, j \in DOMAIN SearchBody.data :
           /\ SearchBody.data[k].campaign_count = 2
           /\ SearchBody.data[k].threat_actor_count = 1
           /\ SearchBody.data[j].campaign_count = 0
           /\ SearchBody.data[j].threat_actor_count = 0

\* C27: a search that runs a statement against the store runs with a page
\* that is an integer of at least 1, a limit that is an integer from 1 to
\* 100 and so an offset that is an integer of at least 0; every other
\* request, one whose page or limit is not a number included, is answered
\* 400 WRONG_PARAMETERS without a statement being run.
C27_StoreReachedOnlyWithValidPaging ==
    sPc = "done" =>
        /\ sLog # <<>> =>
               /\ ~pageNum(sReq).nan /\ pageNum(sReq).n >= 1
               /\ ~limitNum(sReq).nan /\ limitNum(sReq).n >= 1 /\ limitNum(sReq).n <= 100
               /\ ~offset(sReq).nan /\ offset(sReq).n >= 0
        /\ sLog = <<>> =>
               /\ sRes.status = 400
               /\ SearchBody.code = "WRONG_PARAMETERS"

(***************************************************************************)
(* Properties of the detail handler                                        *)
(***************************************************************************)
DetailBody == JSONParse(sRes.body).value

\* the outgoing edges of the requested indicator
OutgoingEdges == { e \in sStore.indicator_relationships : e.source_indicator_id = sReq.id }

\* the (threat actor, confidence) pairs linked to the requested indicator
\* through a campaign
LinkedActorPairs ==
    { <<x[1].threat_actor_id, x[1].confidence>> :
        x \in { y \in sStore.actor_campaigns \X sStore.campaign_indicators :
                  y[1].campaign_id = y[2].campaign_id /\ y[2].indicator_id = sReq.id } }

\* C12: the relatedIndicators of a detail response are at most 5, each the
\* target of an outgoing edge of the indicator, and with more than 5 outgoing
\* edges they are the targets of the 5 edges of latest first_observed.
C12_RelatedIndicatorsAtMostFive ==
    (sPc = "done" /\ sRes.status = 200) =>
        /\ BagCardinality(DetailBody.relatedIndicators) <= 5
        /\ \A e \in BagToSet(DetailBody.relatedIndicators) :
               \E edge \in OutgoingEdges : edge.target_indicator_id = e.id
        /\ Cardinality(OutgoingEdges) > 5 =>
               { e.id : e \in BagToSet(DetailBody.relatedIndicators) } =
                   { edge.target_indicator_id :
                       edge \in { x \in OutgoingEdges :
                                    Cardinality({ z \in OutgoingEdges :
                                        z.first_observed > x.first_observed }) < 5 } }

\* C13: the threatActors of a detail response hold one entry for every
\* distinct (threat actor, confidence) pair linked to the indicator through a
\* campaign, and no other entry.
C13_ThreatActorsOnePerPair ==
    (sPc = "done" /\ sRes.status = 200) =>
        /\ BagCardinality(DetailBody.threatActors.items) = Cardinality(LinkedActorPairs)
        /\ { <<e.id, e.confidence>> : e \in BagToSet(DetailBody.threatActors.items) } =
               LinkedActorPairs

\* C14: the campaigns of a detail response are the campaigns the indicator
\* was observed in, each entry with a boolean active that is true exactly when
\* its status is "active".
C14_CampaignsCarryActive ==
    (sPc = "done" /\ sRes.status = 200) =>
        /\ { e.id : e \in BagToSet(DetailBody.campaigns) } =
               { ci.campaign_id : ci \in { x \in sStore.campaign_indicators :
                                             x.indicator_id = sReq.id } }
        /\ \A e \in BagToSet(DetailBody.campaigns) :
               /\ "active" \in DOMAIN e
               /\ e.active = (e.status = "active")

\* C15: a detail request for an id no indicator of the store has is answered
\* 404 NOT_FOUND with details {id}, after the one lookup of that id.
C15_AbsentIndicatorNotFound ==
    (sPc = "done" /\ \A i \in sStore.indicators : i.id # sReq.id) =>
        /\ sRes.status = 404
        /\ DetailBody.code = "NOT_FOUND"
        /\ DetailBody.details = [id |-> sReq.id]
        /\ sLog = << [stmt |-> "getIndicatorDetails", id |-> sReq.id] >>

\* a request for an absent id was answered 404
C15_Witness ==
    /\ sPc = "done" /\ sReq.id = <<"indicator", 8>>
    /\ sRes.status = 404

(***************************************************************************)
(* Properties of the campaign timeline handler                             *)
(***************************************************************************)
TimelineBody == JSONParse(sRes.body).value

ValidGroupBy == ~sReq.group_by.defined \/ sReq.group_by.text \in {"day", "week"}

\* the observations of the requested campaign whose calendar day lies between
\* the bounds given, a bound not given restricting nothing
ObservationsInRange ==
    { o \in sStore.campaign_indicators :
        /\ o.campaign_id = sReq.id
        /\ sReq.start_date.defined => sReq.start_date.text[1] <= o.observed_at[1]
        /\ sReq.end_date.defined => o.observed_at[1] <= sReq.end_date.text[1] }

\* the Monday on or before day d
MondayOnOrBefore(d) == d - ((WeekdayOf(d) + 6) % 7)

\* C16: a timeline request whose group_by is a string other than day and week
\* is answered 400 WRONG_PARAMETERS with details {group_by: the value}, and
\* no function of the data layer is called, whatever the campaign id.
C16_InvalidGroupByRejected ==
    (sPc = "done" /\ sReq.group_by.defined
        /\ sReq.group_by.text \notin {"day", "week"}) =>
        /\ sRes.status = 400
        /\ TimelineBody.code = "WRONG_PARAMETERS"
        /\ TimelineBody.details = [group_by |-> sReq.group_by.text]
        /\ sLog = <<>>

\* an empty group_by for a campaign of the store was answered 400
C16_Witness ==
    /\ sPc = "done" /\ sReq.id = "c1"
    /\ sReq.group_by = [defined |-> TRUE, text |-> ""]
    /\ sRes.status = 400

\* C17: with group_by week, the period of every entry of the timeline is the
\* Monday on or before the day of the observation of each indicator listed
\* in the entry: the day itself when it is a Monday.
C17_WeekPeriodIsMondayOnOrBefore ==
    (sPc = "done" /\ sRes.status = 200 /\ sReq.group_by.defined
        /\ sReq.group_by.text = "week") =>
        \A k \in DOMAIN TimelineBody.timeline :
            \A e \in DOMAIN TimelineBody.timeline[k].indicators :
                \A o \in sStore.campaign_indicators :
                    (o.campaign_id = sReq.id /\ o.indicator_id = e.id) =>
                        TimelineBody.timeline[k].period =
                            <<MondayOnOrBefore(o.observed_at[1]), 0>>

\* C18: the summary counts exactly the observations of the campaign whose
\* calendar day is within the bounds given, a bound not given restricting
\* nothing, and by day the timeline has exactly the days of those
\* observations.
C18_RangeIsInclusiveAndOptional ==
    (sPc = "done" /\ sRes.status = 200) =>
        /\ TimelineBody.summary.total_indicators = Cardinality(ObservationsInRange)
        /\ (~sReq.group_by.defined \/ sReq.group_by.text = "day") =>
               { TimelineBody.timeline[k].period : k \in DOMAIN TimelineBody.timeline }
                   = { date(o.observed_at) : o \in ObservationsInRange }

\* C19: a campaign of the store none of whose observations has its calendar
\* day within the bounds given is answered 200 with an empty timeline, a
\* total of 0 and the campaign itself.
C19_EmptyRangeIsEmptyTimeline ==
    (sPc = "done" /\ ValidGroupBy /\ ObservationsInRange = {}
        /\ \E c \in sStore.campaigns : c.id = sReq.id) =>
        /\ sRes.status = 200
        /\ TimelineBody.timeline = <<>>
        /\ TimelineBody.summary.total_indicators = 0
        /\ TimelineBody.campaign \in sStore.campaigns
        /\ TimelineBody.campaign.id = sReq.id

\* a campaign with observations, all before the start given, was answered
\* with an empty timeline
C19_Witness ==
    /\ sPc = "done" /\ sReq.id = "c1"
    /\ \E o \in sStore.campaign_indicators : o.campaign_id = "c1"
    /\ sReq.start_date = [defined |-> TRUE, text |-> <<20, 0>>]
    /\ sRes.status = 200
    /\ TimelineBody.timeline = <<>>

\* C20: a timeline request with a valid group_by for an id no campaign of the
\* store has is answered 404 NOT_FOUND with details {id}, after the one
\* lookup of that id and nothing else.
C20_AbsentCampaignNotFound ==
    (sPc = "done" /\ ValidGroupBy /\ \A c \in sStore.campaigns : c.id # sReq.id) =>
        /\ sRes.status = 404
        /\ TimelineBody.code = "NOT_FOUND"
        /\ TimelineBody.details = [id |-> sReq.id]
        /\ sLog = << [stmt |-> "getCampaignDetails", id |-> sReq.id] >>

\* a request by week for an absent id was answered 404
C20_Witness ==
    /\ sPc = "done" /\ sReq.id = "c9"
    /\ sReq.group_by = [defined |-> TRUE, text |-> "week"]
    /\ sRes.status = 404

\* C28: in every entry of a timeline the indicators listed are the
\* observations the entry counts: each was observed within the bounds given,
\* and there are as many as the sum of the four counts of the entry.
C28_ListedIndicatorsAreTheCountedOnes ==
    (sPc = "done" /\ sRes.status = 200) =>
        \A k \in DOMAIN TimelineBody.timeline :
            LET entry == TimelineBody.timeline[k]
            IN  /\ \A e \in DOMAIN entry.indicators :
                       \E o \in ObservationsInRange : o.indicator_id = e.id
                /\ BagCardinality(entry.indicators) =
                       entry.counts["ip"] + entry.counts["domain"]
                           + entry.counts["url"] + entry.counts["hash"]

\* the sum of the four counts of the entries of a timeline
RECURSIVE CountedIn(_)
CountedIn(entries) ==
    IF entries = <<>> THEN 0
    ELSE Head(entries).counts["ip"] + Head(entries).counts["domain"]
             + Head(entries).counts["url"] + Head(entries).counts["hash"]
             + CountedIn(Tail(entries))

\* C29: in every timeline response summary.total_indicators is the sum of the
\* per-type counts of all the entries of the timeline, and no two entries
\* have the same period.
C29_TotalIsSumOfCounts ==
    (sPc = "done" /\ sRes.status = 200) =>
        /\ TimelineBody.summary.total_indicators = CountedIn(TimelineBody.timeline)
        /\ \A j, k \in DOMAIN TimelineBody.timeline :
               TimelineBody.timeline[j].period = TimelineBody.timeline[k].period => j = k

\* a timeline of several entries counting three observations, with an
\* observation of the campaign left out by the bounds
C29_Witness ==
    /\ sPc = "done" /\ sRes.status = 200
    /\ Len(TimelineBody.timeline) >= 2
    /\ TimelineBody.summary.total_indicators = 3
    /\ Cardinality({ o \in sStore.campaign_indicators : o.campaign_id = sReq.id }) = 4

(***************************************************************************)
(* Properties of the error middleware                                      *)
(***************************************************************************)
FaultBody == JSONParse(sRes.body).value

\* C21: when a call of the data layer throws an error that is not an
\* HttpError the response is 500 with the body {error: "Internal server
\* error"} and nothing else, and every other response that is not a 200 is
\* either that one or the status of an HttpError with the body {error, code,
\* details}.
C21_UnknownErrorsAnsweredGeneric500 ==
    sPc = "done" =>
        /\ (sReq.fault.at >= 1 /\ Len(sLog) = sReq.fault.at) =>
               /\ sRes.status = 500
               /\ FaultBody = [error |-> "Internal server error"]
        /\ sRes.status # 200 =>
               \/ /\ sRes.status = 500
                  /\ FaultBody = [error |-> "Internal server error"]
               \/ /\ sRes.status = 400
                  /\ DOMAIN FaultBody = {"error", "code", "details"}
                  /\ FaultBody.code = "WRONG_PARAMETERS"
               \/ /\ sRes.status = 404
                  /\ DOMAIN FaultBody = {"error", "code", "details"}
                  /\ FaultBody.code = "NOT_FOUND"

\* the lookup of a campaign threw "Database error" and the answer was 500
C21_Witness ==
    /\ sPc = "done" /\ sReq.handler = "getCampaignIndicators"
    /\ sReq.fault = [at |-> 1, err |-> [name |-> "Error", http |-> FALSE,
                                        message |-> "Database error"]]
    /\ sLog = << [stmt |-> "getCampaignDetails", id |-> sReq.req.id] >>
    /\ sRes.status = 500

(***************************************************************************)
(* Properties of the dashboard document                                    *)
(***************************************************************************)
\* the document carried by the 200 response of request q: the JSON text of
\* its data member
DocumentOf(q) == JSONParse(JSONParse(q.res.body).value.data).value

\* the time and the store version the document of q was computed at
DocumentTime(q) == IF q.res.cached = Absent THEN q.computedAt ELSE q.seen.srcAt
DocumentVersion(q) == IF q.res.cached = Absent THEN q.computedVer ELSE q.seen.srcVer

\* C22: in every dashboard document new_indicators gives for each of ip,
\* domain, url and hash the number of indicators of that type first seen at
\* or after the cutoff, the number 0 when there is none, also when no
\* indicator at all was first seen since the cutoff.
C22_NewIndicatorsAreCounts ==
    \A r \in DOMAIN reqs :
        LET q == reqs[r]
            cutoff == getCutoff(Lookup(TIME_RANGE_MAPPING, q.timeRange), DocumentTime(q)).t
        IN  (q.pc = "done" /\ q.res.status = 200) =>
                DocumentOf(q).new_indicators =
                    [ty \in {"ip", "domain", "url", "hash"} |->
                        SqlInt(Cardinality(
                            { i \in IndicatorsAt(DocumentVersion(q)) :
                                i.type = ty /\ i.first_seen >= cutoff }))]

\* C23: in every dashboard document indicator_distribution is the object
\* giving for each type the number of indicators of that type in the whole
\* table, whatever the time_range, so that it is the same for 24h, 7d and
\* 30d over one store.
C23_DistributionIsGlobalObject ==
    \A r \in DOMAIN reqs :
        LET q == reqs[r]
        IN  (q.pc = "done" /\ q.res.status = 200) =>
                DocumentOf(q).indicator_distribution =
                    [ty \in {"ip", "domain", "url", "hash"} |->
                        SqlInt(Cardinality(
                            { i \in IndicatorsAt(DocumentVersion(q)) : i.type = ty }))]

(***************************************************************************)
(* Properties of the cache                                                 *)
(***************************************************************************)
\* the key of the range of request q
OwnKey(q) == <<"dashboard:summary:", q.timeRange>>

\* C24: distinct ranges have distinct keys; the GET of a request reads the
\* entry of the key of its range, its SETEX leaves the entry of every other
\* key as it was, and no other step of a request changes any entry.
C24_RequestTouchesOnlyItsKey ==
    [][ /\ \A t1, t2 \in QueryValues \ {Absent, ""} :
               cacheKey(t1) = cacheKey(t2) => t1 = t2
        /\ \A r \in DOMAIN reqs :
               /\ (reqs[r].pc = "get" /\ reqs'[r].pc = "reply" /\ ~reqs'[r].getFailed) =>
                      /\ reqs'[r].seen = redis[OwnKey(reqs[r])]
                      /\ reqs'[r].got = RedisValue(OwnKey(reqs[r]))
               /\ (reqs[r].pc = "setex" /\ reqs'[r].pc = "done") =>
                      \A k \in CacheKeys \ {OwnKey(reqs[r])} : redis'[k] = redis[k]
               /\ (reqs'[r] # reqs[r] /\ reqs[r].pc # "setex") => redis' = redis
      ]_vars

\* a request for 24h has written its key while the key of 7d, written
\* before, is still there
C24_Witness ==
    \E r \in DOMAIN reqs :
        /\ reqs[r].pc = "done" /\ reqs[r].timeRange = "24h"
        /\ reqs[r].setexCalls = 1 /\ ~reqs[r].setFailed
        /\ redis[<<"dashboard:summary:", "24h">>].state = "live"
        /\ redis[<<"dashboard:summary:", "24h">>].storedAt = now
        /\ redis[<<"dashboard:summary:", "7d">>].state = "live"
        /\ redis[<<"dashboard:summary:", "7d">>].storedAt < now

\* C26: a dashboard response carries the header cached: redis exactly when
\* its body was taken from the cache and not computed from the store, also
\* when the cached value could not be parsed.
C26_MarkerIffFromCache ==
    \A r \in DOMAIN reqs :
        LET q == reqs[r]
        IN  (q.pc = "done" /\ q.res.status = 200) =>
                (q.res.cached = "redis") = (q.dbCalls = 0 /\ q.res.body = q.got)

\* C30: a key is written only by the SETEX of a request that missed and
\* computed its document, with the document and a life of 300 s from the
\* write; no step of a request that got a value from the cache changes the
\* cache; and a response served from the cache carries a document stored
\* less than 300 s before it was read.
C30_HitsNeverWriteNorExtend ==
    [][ /\ \A k \in CacheKeys :
               (redis'[k] # redis[k] /\ redis'[k].state = "live") =>
                   \E r \in DOMAIN reqs :
                       /\ reqs[r].pc = "setex" /\ reqs'[r].pc = "done"
                       /\ reqs[r].got = NoText /\ reqs[r].dbCalls = 1
                       /\ k = OwnKey(reqs[r])
                       /\ redis'[k].value = JSONStringify(reqs[r].summary)
                       /\ redis'[k].storedAt = now
                       /\ redis'[k].expiresAt = now + 300
        /\ \A r \in DOMAIN reqs :
               /\ (reqs'[r] # reqs[r] /\ reqs'[r].got # NoText) => redis' = redis
               /\ (reqs'[r].pc = "done" /\ reqs'[r].res.cached = "redis") =>
                      /\ reqs'[r].setexCalls = 0
                      /\ reqs'[r].readAt - reqs'[r].seen.storedAt < 300
      ]_vars

\* a response served from the cache 299 s after the write, the key still
\* due to expire 300 s after the write
C30_Witness ==
    \E r \in DOMAIN reqs :
        /\ reqs[r].pc = "done" /\ reqs[r].res.cached = "redis"
        /\ now - redis[OwnKey(reqs[r])].storedAt = 299
        /\ redis[OwnKey(reqs[r])].state = "live"
        /\ redis[OwnKey(reqs[r])].expiresAt = redis[OwnKey(reqs[r])].storedAt + 300

====
